---- MODULE Spec2Model ----
(***************************************************************************)
(* A model of the envfile crate (src/src/lib.rs): EnvFile::new parses a    *)
(* file of KEY=VALUE lines into a BTreeMap<String, String>, get and update *)
(* read and change the map, and write serialises it back to the file in    *)
(* ascending key order.  Bytes are integers 0..255, byte strings are       *)
(* sequences of bytes, and the map is a function from keys to values whose *)
(* iteration order is the byte-lexicographic order of the keys.            *)
(***************************************************************************)
EXTENDS Integers, Sequences, FiniteSets

VARIABLES
    disk,     \* the file at `path`: [exists, bytes]
    alive,    \* TRUE while an EnvFile value built by new() is in scope
    store,    \* EnvFile.store, the BTreeMap<String, String>
    data,     \* the buffer read() returned to the last successful new()
    updated,  \* update() was called on this EnvFile value
    reads,    \* calls of read() made for this EnvFile value
    writes,   \* calls of write() made for this EnvFile value
    written,  \* the map the file was last successfully written from
    lives,    \* EnvFile values built so far
    last      \* the last call: [op, ret]

vars == <<disk, alive, store, data, updated, reads, writes, written, lives, last>>

----------------------------------------------------------------------------
(* Bounds and input sets *)

\* longest initial file content of ParseSpec
MaxLen == 5

\* most write() calls on one EnvFile value
MaxWrites == 2

\* most EnvFile values built in one run
MaxLives == 2

\* the bytes file contents are drawn from: '\n', '\r', '=', 'A' and 0xFF,
\* a byte that no UTF-8 text contains
Byte == {10, 13, 61, 65, 255}

\* the initial file contents of Spec: empty, B=1\nA=2\n, and
\* A=1\nA=2\nA=<0xFF>\n
InitFiles == { <<>>, <<66, 61, 49, 10, 65, 61, 50, 10>>,
               <<65, 61, 49, 10, 65, 61, 50, 10, 65, 61, 255, 10>> }

\* the (key, value) arguments of update(): B=2, A=1, A=2, a key holding
\* '=', a key holding '\n', a value holding '\n'
UpdArgs == { << <<66>>, <<50>> >>, << <<65>>, <<49>> >>, << <<65>>, <<50>> >>,
             << <<65, 61>>, <<49>> >>, << <<10>>, <<49>> >>,
             << <<66>>, <<10>> >> }

\* the initial file content of ReopenSpec, A=1\n, and its update()
\* arguments: the ones of UpdArgs that a written file cannot hold
ReopenFiles == { <<65, 61, 49, 10>> }
ReopenArgs == { << <<65, 61>>, <<49>> >>, << <<10>>, <<49>> >>,
                << <<66>>, <<10>> >> }

\* the keys get() is called with
GetKeys == { a[1] : a \in UpdArgs } \cup { <<>> }

----------------------------------------------------------------------------
(* Bytes and text *)

LF == 10
EQ == 61

BytesUpTo(n) == UNION { [1..m -> Byte] : m \in 0..n }

\* Whether s[i] is a UTF-8 continuation byte within [lo, hi].
Cont(s, i, lo, hi) == i <= Len(s) /\ s[i] >= lo /\ s[i] <= hi

\* String::from_utf8(..).ok().is_some(): s is well-formed UTF-8 from index i.
RECURSIVE Utf8From(_, _)
Utf8From(s, i) ==
    IF i > Len(s) THEN TRUE
    ELSE LET b == s[i] IN
         IF b < 128 THEN Utf8From(s, i + 1)
         ELSE IF b >= 194 /\ b <= 223
              THEN Cont(s, i + 1, 128, 191) /\ Utf8From(s, i + 2)
         ELSE IF b >= 224 /\ b <= 239
              THEN /\ Cont(s, i + 1, IF b = 224 THEN 160 ELSE 128,
                                     IF b = 237 THEN 159 ELSE 191)
                   /\ Cont(s, i + 2, 128, 191)
                   /\ Utf8From(s, i + 3)
         ELSE IF b >= 240 /\ b <= 244
              THEN /\ Cont(s, i + 1, IF b = 240 THEN 144 ELSE 128,
                                     IF b = 244 THEN 143 ELSE 191)
                   /\ Cont(s, i + 2, 128, 191)
                   /\ Cont(s, i + 3, 128, 191)
                   /\ Utf8From(s, i + 4)
         ELSE FALSE

from_utf8_ok(s) == Utf8From(s, 1)

\* Ord for String: byte-wise lexicographic, a proper prefix is smaller.
RECURSIVE LessFrom(_, _, _)
LessFrom(a, b, i) ==
    IF i > Len(b) THEN FALSE
    ELSE IF i > Len(a) THEN TRUE
    ELSE IF a[i] # b[i] THEN a[i] < b[i]
    ELSE LessFrom(a, b, i + 1)

KeyLess(a, b) == LessFrom(a, b, 1)

----------------------------------------------------------------------------
(* The BTreeMap *)

EmptyStore == [k \in {} |-> <<>>]

\* a variant of Insert that keeps the value of a key already present
InsertKeep(s, key, value) ==
    [k \in (DOMAIN s) \cup {key} |-> IF k \in DOMAIN s THEN s[k] ELSE value]

\* BTreeMap::insert: the key's value is replaced, or the key is added.
Insert(s, key, value) ==
    [k \in (DOMAIN s) \cup {key} |-> IF k = key THEN value ELSE s[k]]

\* BTreeMap::get as get() returns it: Some(value) or None.
Some(v) == [tag |-> "some", val |-> v, at |-> ""]
None == [tag |-> "none", val |-> <<>>, at |-> ""]
Lookup(s, key) == IF key \in DOMAIN s THEN Some(s[key]) ELSE None

\* a variant of FirstKey for a map iterated in descending order
LastKey(keys) == CHOOSE k \in keys : \A j \in keys \ {k} : KeyLess(j, k)

\* the first key of the map's iteration
FirstKey(keys) == CHOOSE k \in keys : \A j \in keys \ {k} : KeyLess(k, j)

----------------------------------------------------------------------------
(* EnvFile::new's parse *)

\* data.split(|&x| x == b'\n'): the segments between newline bytes
RECURSIVE SplitAcc(_, _, _)
SplitAcc(s, i, cur) ==
    IF i > Len(s) THEN <<cur>>
    ELSE IF s[i] = LF THEN <<cur>> \o SplitAcc(s, i + 1, <<>>)
    ELSE SplitAcc(s, i + 1, Append(cur, s[i]))

Split(s) == SplitAcc(s, 1, <<>>)

\* a variant of Position that finds the last '='
PositionLast(entry) ==
    IF \E i \in 1..Len(entry) : entry[i] = EQ
    THEN CHOOSE i \in 1..Len(entry) :
            entry[i] = EQ /\ \A j \in (i + 1)..Len(entry) : entry[j] # EQ
    ELSE 0

\* entry.iter().position(|&x| x == b'='): the 1-based index of the first
\* '=', 0 for None
RECURSIVE PositionFrom(_, _)
PositionFrom(entry, i) ==
    IF i > Len(entry) THEN 0
    ELSE IF entry[i] = EQ THEN i
    ELSE PositionFrom(entry, i + 1)

Position(entry) == PositionFrom(entry, 1)

\* a variant of ParseEntry that strips a '\r' that ends the value
ParseEntryTrimCR(entry) ==
    LET pos == PositionFrom(entry, 1) IN
    IF pos = 0 THEN <<>>
    ELSE LET x == SubSeq(entry, 1, pos - 1)
             y == SubSeq(entry, pos + 1, Len(entry))
             t == IF y # <<>> /\ y[Len(y)] = 13
                  THEN SubSeq(y, 1, Len(y) - 1) ELSE y
         IN  IF from_utf8_ok(x) /\ from_utf8_ok(y) THEN << <<x, t>> >> ELSE <<>>

\* a variant of ParseEntry that takes a segment without '=' as a key with
\* an empty value
ParseEntryLoose(entry) ==
    LET pos == PositionFrom(entry, 1) IN
    IF pos = 0
    THEN IF entry # <<>> /\ from_utf8_ok(entry) THEN << <<entry, <<>> >> >> ELSE <<>>
    ELSE LET x == SubSeq(entry, 1, pos - 1)
             y == SubSeq(entry, pos + 1, Len(entry))
         IN  IF from_utf8_ok(x) /\ from_utf8_ok(y) THEN << <<x, y>> >> ELSE <<>>

\* the closure given to flat_map: no pair, or the one (key, value) pair
ParseEntry(entry) ==
    LET pos == Position(entry) IN
    IF pos = 0 THEN <<>>
    ELSE LET x == SubSeq(entry, 1, pos - 1)
             y == SubSeq(entry, pos + 1, Len(entry))
         IN  IF from_utf8_ok(x) /\ from_utf8_ok(y) THEN << <<x, y>> >> ELSE <<>>

\* `values`: the pairs of all segments, in file order
RECURSIVE ValuesFrom(_, _)
ValuesFrom(segs, i) ==
    IF i > Len(segs) THEN <<>>
    ELSE ParseEntry(segs[i]) \o ValuesFrom(segs, i + 1)

Values(bytes) == ValuesFrom(Split(bytes), 1)

\* a variant of InsertAll that inserts the pairs from the last to the first
RECURSIVE InsertAllRev(_, _, _)
InsertAllRev(s, pairs, i) ==
    IF i > Len(pairs) THEN s
    ELSE Insert(InsertAllRev(s, pairs, i + 1), pairs[i][1], pairs[i][2])

\* the for loop: each pair is inserted in turn
RECURSIVE InsertAll(_, _, _)
InsertAll(s, pairs, i) ==
    IF i > Len(pairs) THEN s
    ELSE InsertAll(Insert(s, pairs[i][1], pairs[i][2]), pairs, i + 1)

ParseStore(bytes) == InsertAll(EmptyStore, Values(bytes), 1)

----------------------------------------------------------------------------
(* EnvFile::write's buffer *)

RECURSIVE BufferFrom(_, _)
BufferFrom(s, keys) ==
    IF keys = {} THEN <<>>
    ELSE LET key == FirstKey(keys) IN
         key \o <<EQ>> \o s[key] \o <<LF>> \o BufferFrom(s, keys \ {key})

Buffer(s) == BufferFrom(s, DOMAIN s)

----------------------------------------------------------------------------
(* File I/O *)

Path == "recovery.conf"

Ok == [tag |-> "ok", val |-> <<>>, at |-> ""]
\* an io::Error; `at` is the path its message names, "" when it names none
Err(at) == [tag |-> "err", val |-> <<>>, at |-> at]

NoFile == [exists |-> FALSE, bytes |-> <<>>]
File(bytes) == [exists |-> TRUE, bytes |-> bytes]

\* open(): File::open fails on a missing file or on an I/O fault, and the
\* error is rewritten to name the path
open(d, fault) ==
    IF ~d.exists \/ fault = "open" THEN Err(Path) ELSE Ok

\* a variant of create that opens the file without truncating it
create_keep(d, fault) ==
    IF fault = "create" THEN [ret |-> Err(Path), disk |-> d]
    ELSE [ret |-> Ok, disk |-> File(d.bytes)]

\* create(): File::create truncates or creates the file
create(d, fault) ==
    IF fault = "create" THEN [ret |-> Err(Path), disk |-> d]
    ELSE [ret |-> Ok, disk |-> File(<<>>)]

\* read(): open, then read_to_end, whose error is passed on as it is
read(d, fault) ==
    IF open(d, fault).tag = "err" THEN [ret |-> open(d, fault), buf |-> <<>>]
    ELSE IF fault = "read" THEN [ret |-> Err(""), buf |-> <<>>]
    ELSE [ret |-> Ok, buf |-> d.bytes]

\* what a file holding `old` holds after `new` is written at its start
Overwrite(old, new) == new \o SubSeq(old, Len(new) + 1, Len(old))

\* write(): create, then write_all, which on a fault has written only the
\* first n bytes and whose error is passed on as it is
write(d, contents, fault, n) ==
    LET c == create(d, fault) IN
    IF c.ret.tag = "err" THEN c
    ELSE IF fault = "write" /\ n < Len(contents)
         THEN [ret |-> Err(""),
               disk |-> File(Overwrite(c.disk.bytes, SubSeq(contents, 1, n)))]
    ELSE [ret |-> Ok, disk |-> File(Overwrite(c.disk.bytes, contents))]

----------------------------------------------------------------------------
(* The operations *)

Call(op, ret) == [op |-> op, ret |-> ret]

NotWritten == [valid |-> FALSE, store |-> EmptyStore]
WrittenFrom(s) == [valid |-> TRUE, store |-> s]

\* EnvFile::new(path)
New ==
    /\ ~alive
    /\ lives < MaxLives
    /\ \E fault \in {"none", "open", "read"} :
         LET r == read(disk, fault) IN
         /\ last' = Call("new", r.ret)
         /\ IF r.ret.tag = "err"
            THEN UNCHANGED <<alive, store, data, updated, reads, writes, lives>>
            ELSE /\ alive' = TRUE
                 /\ store' = ParseStore(r.buf)
                 /\ data' = r.buf
                 /\ updated' = FALSE
                 /\ reads' = 1
                 /\ writes' = 0
                 /\ lives' = lives + 1
    /\ UNCHANGED <<disk, written>>

\* a variant of Update that saves the map to the file at once
UpdateAndSave(key, value) ==
    /\ alive
    /\ store' = Insert(store, key, value)
    /\ updated' = TRUE
    /\ disk' = File(Buffer(store'))
    /\ last' = Call("update", Ok)
    /\ UNCHANGED <<alive, data, reads, writes, written, lives>>

\* EnvFile::update(key, value)
Update(key, value) ==
    /\ alive
    /\ store' = Insert(store, key, value)
    /\ updated' = TRUE
    /\ last' = Call("update", Ok)
    /\ UNCHANGED <<disk, alive, data, reads, writes, written, lives>>

\* a variant of Get that reads the file again before the lookup
GetReread(key) ==
    /\ alive
    /\ reads' = reads + 1
    /\ store' = IF disk.exists THEN ParseStore(disk.bytes) ELSE store
    /\ last' = Call("get", Lookup(store', key))
    /\ UNCHANGED <<disk, alive, data, updated, writes, written, lives>>

\* EnvFile::get(key)
Get(key) ==
    /\ alive
    /\ last' = Call("get", Lookup(store, key))
    /\ UNCHANGED <<disk, alive, store, data, updated, reads, writes, written, lives>>

\* EnvFile::write()
Write ==
    /\ alive
    /\ writes < MaxWrites
    /\ \E fault \in {"none", "create", "write"} :
         \E n \in IF fault = "write" THEN 0..(Len(Buffer(store)) - 1) ELSE {0} :
            LET r == write(disk, Buffer(store), fault, n) IN
            /\ disk' = r.disk
            /\ last' = Call("write", r.ret)
            /\ written' = IF r.ret.tag = "ok" THEN WrittenFrom(store)
                          ELSE IF fault = "create" THEN written
                          ELSE NotWritten
    /\ writes' = writes + 1
    /\ UNCHANGED <<alive, store, data, updated, reads, lives>>

\* the EnvFile value goes out of scope
Drop ==
    /\ alive
    /\ alive' = FALSE
    /\ store' = EmptyStore
    /\ data' = <<>>
    /\ updated' = FALSE
    /\ reads' = 0
    /\ writes' = 0
    /\ last' = Call("drop", Ok)
    /\ UNCHANGED <<disk, written, lives>>

Start ==
    /\ alive = FALSE
    /\ store = EmptyStore
    /\ data = <<>>
    /\ updated = FALSE
    /\ reads = 0
    /\ writes = 0
    /\ written = NotWritten
    /\ lives = 0
    /\ last = Call("none", Ok)

\* one EnvFile value over a short file, with every operation on it
Init ==
    /\ disk \in {NoFile} \cup { File(b) : b \in InitFiles }
    /\ Start

Next ==
    \/ New
    \/ \E a \in UpdArgs : Update(a[1], a[2])
    \/ \E key \in GetKeys : Get(key)
    \/ Write

Spec == Init /\ [][Next]_vars

\* every file content up to MaxLen bytes, opened, written back and reopened
ParseInit ==
    /\ disk \in {NoFile} \cup { File(b) : b \in BytesUpTo(MaxLen) }
    /\ Start

ParseNext ==
    \/ New
    \/ Write
    \/ Drop

ParseSpec == ParseInit /\ [][ParseNext]_vars

\* a file that is updated, written and opened again
ReopenInit ==
    /\ disk \in { File(b) : b \in ReopenFiles }
    /\ Start

ReopenNext ==
    \/ New
    \/ \E a \in ReopenArgs : Update(a[1], a[2])
    \/ Write
    \/ Drop

ReopenSpec == ReopenInit /\ [][ReopenNext]_vars

----------------------------------------------------------------------------
(* What the properties are stated with *)

AfterNew == last.op = "new" /\ last.ret.tag = "ok"
AfterWrite == last.op = "write" /\ last.ret.tag = "ok"

HasEq(seg) == \E i \in 1..Len(seg) : seg[i] = EQ
FirstEq(seg) ==
    CHOOSE i \in 1..Len(seg) : seg[i] = EQ /\ \A j \in 1..(i - 1) : seg[j] # EQ
KeyOf(seg) == SubSeq(seg, 1, FirstEq(seg) - 1)
ValOf(seg) == SubSeq(seg, FirstEq(seg) + 1, Len(seg))
PairOf(seg) == <<KeyOf(seg), ValOf(seg)>>

\* a segment that is not skipped: it has a '=', and its key and its value
\* are text
Kept(seg) ==
    HasEq(seg) /\ from_utf8_ok(KeyOf(seg)) /\ from_utf8_ok(ValOf(seg))

Pairs(s) == { <<k, s[k]>> : k \in DOMAIN s }

\* the lines of a text file: its segments, without the empty one that
\* follows a final newline
TextLines(bytes) ==
    LET segs == Split(bytes) IN
    IF segs[Len(segs)] = <<>> THEN SubSeq(segs, 1, Len(segs) - 1) ELSE segs

\* every line is KEY=VALUE text, and the keys ascend strictly
SortedLines(bytes) ==
    LET ls == TextLines(bytes) IN
    /\ \A i \in 1..Len(ls) : Kept(ls[i])
    /\ \A i, j \in 1..Len(ls) : i < j => KeyLess(KeyOf(ls[i]), KeyOf(ls[j]))

Terminated(bytes) == bytes = <<>> \/ bytes[Len(bytes)] = LF

RECURSIVE Join(_)
Join(segs) ==
    IF segs = <<>> THEN <<>>
    ELSE IF Len(segs) = 1 THEN segs[1]
    ELSE segs[1] \o <<LF>> \o Join(Tail(segs))

\* the keys in ascending order, by counting the smaller keys
Rank(keys, k) == Cardinality({ j \in keys : KeyLess(j, k) }) + 1
KeyAt(keys, i) == CHOOSE k \in keys : Rank(keys, k) = i

RECURSIVE LinesFrom(_, _)
LinesFrom(s, i) ==
    IF i > Cardinality(DOMAIN s) THEN <<>>
    ELSE LET k == KeyAt(DOMAIN s, i) IN
         k \o <<EQ>> \o s[k] \o <<LF>> \o LinesFrom(s, i + 1)

\* a map that a written file can hold: no key has '=' or '\n', no value '\n'
Clean(s) ==
    \A k \in DOMAIN s :
        /\ \A i \in 1..Len(k) : k[i] # EQ /\ k[i] # LF
        /\ \A i \in 1..Len(s[k]) : s[k][i] # LF

----------------------------------------------------------------------------
(* C1 *)

\* C1, as stated: after new() the map holds exactly the (key, value) pairs
\* of all segments that contain '=', split at the first '='.
C1_AllSegments ==
    AfterNew =>
        LET segs == Split(data) IN
        Pairs(store) = { PairOf(segs[i]) :
                            i \in { j \in 1..Len(segs) : HasEq(segs[j]) } }

\* C1, amended: after new() the map holds exactly the (key, value) pairs,
\* split at the first '=', of the segments whose key and value are valid
\* UTF-8 and that no later such segment with the same key follows.
C1_Parse ==
    AfterNew =>
        LET segs == Split(data) IN
        Pairs(store) =
            { PairOf(segs[i]) :
                i \in { j \in 1..Len(segs) :
                          /\ Kept(segs[j])
                          /\ \A l \in (j + 1)..Len(segs) :
                                Kept(segs[l]) => KeyOf(segs[l]) # KeyOf(segs[j]) } }

\* new() has parsed A==\r\n: the second '=' and the '\r' are in the value
C1_Witness ==
    /\ AfterNew
    /\ data = <<65, 61, 61, 13, 10>>
    /\ store = Insert(EmptyStore, <<65>>, <<61, 13>>)

----------------------------------------------------------------------------
(* C2 *)

\* C2, as stated: for a file of KEY=VALUE lines in ascending key order,
\* write() after new() with no update leaves the file as it was read.
C2_SortedFile ==
    (AfterWrite /\ ~updated /\ SortedLines(data)) => disk = File(data)

\* C2, amended: the same, for a file whose every line, the last one
\* included, ends with a newline.
C2_RoundTrip ==
    (AfterWrite /\ ~updated /\ SortedLines(data) /\ Terminated(data))
        => disk = File(data)

\* the two-line file =\nA=\n has been read and written back
C2_Witness ==
    /\ AfterWrite
    /\ ~updated
    /\ data = <<61, 10, 65, 61, 10>>
    /\ disk = File(data)

----------------------------------------------------------------------------
(* C3 *)

\* C3: after a successful write() the file holds exactly KEY=VALUE\n for
\* every entry of the map, once each, in strictly ascending key order.
C3_SortedWrite ==
    AfterWrite =>
        LET keys == DOMAIN store
            n == Cardinality(keys)
        IN  /\ disk.exists
            /\ \A i, j \in 1..n : i < j => KeyLess(KeyAt(keys, i), KeyAt(keys, j))
            /\ disk.bytes = LinesFrom(store, 1)

\* the empty file was opened, B=2 and A=1 were set, and A=1\nB=2\n written
C3_Witness ==
    /\ AfterWrite
    /\ data = <<>>
    /\ store = Insert(Insert(EmptyStore, <<66>>, <<50>>), <<65>>, <<49>>)
    /\ disk = File(<<65, 61, 49, 10, 66, 61, 50, 10>>)

----------------------------------------------------------------------------
(* C4 *)

\* C4: update(k, v) makes get(k) return v, leaves get(k') as it was for
\* every other key, and adds one entry exactly when k was absent.
C4_UpdateFrame ==
    [][\A a \in UpdArgs :
         Update(a[1], a[2]) =>
            /\ Lookup(store', a[1]) = Some(a[2])
            /\ \A k \in ((DOMAIN store) \cup (DOMAIN store') \cup GetKeys) \ {a[1]} :
                  Lookup(store', k) = Lookup(store, k)
            /\ Cardinality(DOMAIN store') =
                  Cardinality(DOMAIN store)
                    + (IF a[1] \in DOMAIN store THEN 0 ELSE 1)]_vars

\* B=1\nA=2\n was opened and A overwritten with 1: still two entries
C4_Witness ==
    /\ last.op = "update"
    /\ data = <<66, 61, 49, 10, 65, 61, 50, 10>>
    /\ store = Insert(Insert(EmptyStore, <<66>>, <<49>>), <<65>>, <<49>>)

----------------------------------------------------------------------------
(* C5 *)

\* the segments that hold key `k` before their first '='
LinesWith(segs, k) ==
    { i \in 1..Len(segs) : HasEq(segs[i]) /\ KeyOf(segs[i]) = k }

Max(S) == CHOOSE x \in S : \A y \in S : y <= x

\* C5, as stated: when a key is on several lines, get(key) after new()
\* returns the value of the last of them; and update keeps the last value.
C5_LastLine ==
    [][/\ (AfterNew' =>
             LET segs == Split(data') IN
             \A i \in 1..Len(segs) :
                (HasEq(segs[i]) /\ from_utf8_ok(KeyOf(segs[i]))
                   /\ Cardinality(LinesWith(segs, KeyOf(segs[i]))) > 1)
                => Lookup(store', KeyOf(segs[i])) =
                     Some(ValOf(segs[Max(LinesWith(segs, KeyOf(segs[i])))])))
       /\ \A a \in UpdArgs :
             Update(a[1], a[2]) => Lookup(store', a[1]) = Some(a[2])]_vars

\* the lines that hold key `k` and are not skipped
KeptWith(segs, k) == { i \in LinesWith(segs, k) : Kept(segs[i]) }

\* C5, amended: when a key is on several lines, get(key) after new()
\* returns the value of the last of them whose key and value are valid
\* UTF-8; and update keeps the last value.
C5_LastWins ==
    [][/\ (AfterNew' =>
             LET segs == Split(data') IN
             \A i \in 1..Len(segs) :
                (Kept(segs[i])
                   /\ Cardinality(LinesWith(segs, KeyOf(segs[i]))) > 1)
                => Lookup(store', KeyOf(segs[i])) =
                     Some(ValOf(segs[Max(KeptWith(segs, KeyOf(segs[i])))])))
       /\ \A a \in UpdArgs :
             Update(a[1], a[2]) => Lookup(store', a[1]) = Some(a[2])]_vars

\* A=1\nA=2\nA=<0xFF>\n was opened: A is 2
C5_Witness ==
    /\ AfterNew
    /\ data = <<65, 61, 49, 10, 65, 61, 50, 10, 65, 61, 255, 10>>
    /\ store = Insert(EmptyStore, <<65>>, <<50>>)

----------------------------------------------------------------------------
(* C6 *)

\* C6: a segment without '=', or whose key or value is not valid UTF-8,
\* adds no entry and does not make new() fail, and the other segments are
\* parsed as if it were not there.
C6_SilentSkip ==
    LET segs == Split(data) IN
    /\ AfterNew =>
          /\ \A k \in DOMAIN store :
                \E i \in 1..Len(segs) : Kept(segs[i]) /\ PairOf(segs[i]) = <<k, store[k]>>
          /\ store = ParseStore(Join(SelectSeq(segs, Kept)))
    /\ (last.op = "new" /\ last.ret.tag = "err") =>
          \E fault \in {"open", "read"} : last.ret = read(disk, fault).ret

\* <0xFF>=\n\n= was opened: only the last segment gave an entry
C6_Witness ==
    /\ AfterNew
    /\ data = <<255, 61, 10, 10, 61>>
    /\ store = Insert(EmptyStore, <<>>, <<>>)

----------------------------------------------------------------------------
(* C7 *)

\* C7: new() fails exactly on an I/O failure, with an error that names the
\* path and without a store; write() succeeds only when the file holds the
\* whole buffer; get and update return no error; a failed write() leaves
\* the map as it was.
C7_IoErrors ==
    [][/\ last'.op = "new" =>
             /\ ~disk.exists => last'.ret.tag = "err"
             /\ last'.ret.tag = "err" => (last'.ret.at = Path /\ ~alive')
       /\ last'.op = "write" =>
             /\ last'.ret.tag = "ok" => disk' = File(Buffer(store))
             /\ last'.ret.tag = "err" => store' = store
       /\ last'.op \in {"get", "update"} => last'.ret.tag # "err"]_vars

----------------------------------------------------------------------------
(* C8 *)

\* C8: only write() changes the file; get and update do no I/O, get leaves
\* the map as it was, and new() leaves the file as it was.
C8_NoAutoSave ==
    [][/\ disk' # disk => last'.op = "write"
       /\ last'.op \in {"get", "update"} =>
             (disk' = disk /\ reads' = reads /\ writes' = writes)
       /\ last'.op = "get" => store' = store
       /\ last'.op = "new" => (disk' = disk /\ writes' = 0)]_vars

\* the map was updated and the file still holds what new() read
C8_Witness ==
    /\ last.op = "update"
    /\ disk = File(data)
    /\ ParseStore(disk.bytes) # store

----------------------------------------------------------------------------
(* C9 *)

\* C9, as stated: an EnvFile value has made one file read and at most one
\* file write.
C9_OneWrite == alive => (reads = 1 /\ writes <= 1)

\* C9, amended: an EnvFile value has made one file read, at construction,
\* and one file write for each write() call; get and update make none.
C9_WritePerCall ==
    [][/\ alive' => reads' = 1
       /\ (last'.op = "new" /\ alive') => writes' = 0
       /\ last'.op = "write" => writes' = writes + 1
       /\ last'.op \in {"get", "update"} => writes' = writes]_vars

\* one EnvFile value has written its file twice
C9_Witness == alive /\ reads = 1 /\ writes = 2 /\ last.op = "write"

----------------------------------------------------------------------------
(* C10 *)

\* C10: new() after a successful write() builds the map that was written
\* exactly when that map had no '=' or '\n' in a key and no '\n' in a value;
\* a map built by new() is such a map, and writing it again without an
\* update leaves the file as the earlier write left it.
C10_Reparse ==
    [][/\ (~alive /\ alive' /\ written.valid) =>
             (store' = written.store <=> Clean(written.store))
       /\ AfterNew' => Clean(store')
       /\ (AfterWrite' /\ ~updated /\ written.valid /\ Clean(written.store)) =>
             disk' = disk]_vars

\* the second EnvFile value holds the map the first one wrote
C10_Witness ==
    /\ AfterNew
    /\ lives = 2
    /\ written.valid
    /\ DOMAIN store # {}
    /\ store = written.store

====
